---- MODULE Spec2Model ----
(***************************************************************************)
(* Signal settlement and reward scoring of Signalist-Backend:              *)
(*   src/src/scripts/calculate-reward.js  (getData, rewarding,             *)
(*   calculateReward);                                                     *)
(*   src/unnamed/part_014, the signals controller (updateSignalStatus,     *)
(*   updateSignal, createSignal), with updateUserScore of                  *)
(*   src/src/services/redis.service.js.                                    *)
(*                                                                         *)
(* JavaScript numbers are modelled by exact rationals  num / (den*10^p10)  *)
(* whose numerator is an arbitrary-precision integer, so that              *)
(* timeCost ** hours and targetCost ** index keep the constants of the     *)
(* source.  Prices are positive integers and candle timestamps lie a whole *)
(* number of hours from startMs, so every exponent is a natural number.    *)
(* NaN and Infinity occur only as entryPoint or stopLoss, where the source *)
(* compares them and computes nothing from them.                           *)
(***************************************************************************)
EXTENDS Integers, Sequences, FiniteSets, TLC

(***************************************************************************)
(* Arbitrary-precision naturals: little-endian sequences of limbs in base  *)
(* 10^4 without leading zero limbs (<<>> is 0).                            *)
(***************************************************************************)
Base == 100 * 100

RECURSIVE MagNorm(_)
MagNorm(m) ==
    IF m = <<>> THEN <<>>
    ELSE IF m[Len(m)] = 0 THEN MagNorm(SubSeq(m, 1, Len(m) - 1))
    ELSE m

RECURSIVE MagOfNat(_)
MagOfNat(k) == IF k = 0 THEN <<>> ELSE <<k % Base>> \o MagOfNat(k \div Base)

Limb(m, i) == IF i <= Len(m) THEN m[i] ELSE 0

RECURSIVE MagAddC(_, _, _, _)
MagAddC(a, b, i, carry) ==
    IF i > Len(a) /\ i > Len(b)
    THEN IF carry = 0 THEN <<>> ELSE <<carry>>
    ELSE LET s == Limb(a, i) + Limb(b, i) + carry
         IN  <<s % Base>> \o MagAddC(a, b, i + 1, s \div Base)

MagAdd(a, b) == MagAddC(a, b, 1, 0)

\* a - b for a >= b
RECURSIVE MagSubC(_, _, _, _)
MagSubC(a, b, i, borrow) ==
    IF i > Len(a) THEN <<>>
    ELSE LET s == Limb(a, i) - Limb(b, i) - borrow
         IN  IF s < 0 THEN <<s + Base>> \o MagSubC(a, b, i + 1, 1)
             ELSE <<s>> \o MagSubC(a, b, i + 1, 0)

MagSub(a, b) == MagNorm(MagSubC(a, b, 1, 0))

\* -1, 0, 1 as a < b, a = b, a > b
RECURSIVE MagCmpAt(_, _, _)
MagCmpAt(a, b, i) ==
    IF i = 0 THEN 0
    ELSE IF a[i] < b[i] THEN -1
    ELSE IF a[i] > b[i] THEN 1
    ELSE MagCmpAt(a, b, i - 1)

MagCmp(a, b) ==
    IF Len(a) < Len(b) THEN -1
    ELSE IF Len(a) > Len(b) THEN 1
    ELSE MagCmpAt(a, b, Len(a))

\* a * k for one limb k (0 <= k < Base)
RECURSIVE MagMulLimbC(_, _, _, _)
MagMulLimbC(a, k, i, carry) ==
    IF i > Len(a)
    THEN IF carry = 0 THEN <<>> ELSE <<carry>>
    ELSE LET s == a[i] * k + carry
         IN  <<s % Base>> \o MagMulLimbC(a, k, i + 1, s \div Base)

MagMulLimb(a, k) == IF k = 0 THEN <<>> ELSE MagMulLimbC(a, k, 1, 0)

RECURSIVE MagMulAt(_, _, _)
MagMulAt(a, b, j) ==
    IF j > Len(b) THEN <<>>
    ELSE LET part == MagMulLimb(a, b[j])
             rest == MagMulAt(a, b, j + 1)
         IN  MagAdd(part, IF rest = <<>> THEN <<>> ELSE <<0>> \o rest)

MagMul(a, b) == IF a = <<>> \/ b = <<>> THEN <<>> ELSE MagMulAt(a, b, 1)

(***************************************************************************)
(* Signed integers  [neg, mag]  (zero is never negative).                  *)
(***************************************************************************)
Abs(x) == IF x < 0 THEN -x ELSE x

BigOfInt(x) == [neg |-> x < 0, mag |-> MagOfNat(Abs(x))]

BigNeg(a) == [neg |-> (a.mag # <<>>) /\ ~a.neg, mag |-> a.mag]

BigAdd(a, b) ==
    IF a.neg = b.neg THEN [neg |-> a.neg, mag |-> MagAdd(a.mag, b.mag)]
    ELSE LET c == MagCmp(a.mag, b.mag)
         IN  IF c = 0 THEN [neg |-> FALSE, mag |-> <<>>]
             ELSE IF c > 0 THEN [neg |-> a.neg, mag |-> MagSub(a.mag, b.mag)]
             ELSE [neg |-> b.neg, mag |-> MagSub(b.mag, a.mag)]

BigMul(a, b) ==
    LET m == MagMul(a.mag, b.mag)
    IN  [neg |-> (m # <<>>) /\ (a.neg # b.neg), mag |-> m]

BigSign(a) == IF a.mag = <<>> THEN 0 ELSE IF a.neg THEN -1 ELSE 1

(***************************************************************************)
(* Rationals  num / (den * 10^p10),  den a positive machine integer.       *)
(***************************************************************************)
RECURSIVE Gcd(_, _)
Gcd(a, b) == IF b = 0 THEN a ELSE Gcd(b, a % b)

Lcm(a, b) == (a \div Gcd(a, b)) * b

RECURSIVE BigPow10(_)
BigPow10(k) ==
    IF k = 0 THEN BigOfInt(1)
    ELSE IF k >= 4 THEN LET r == BigPow10(k - 4) IN [neg |-> FALSE, mag |-> <<0>> \o r.mag]
    ELSE BigMul(BigOfInt(10), BigPow10(k - 1))

Rat(a, b) == [num |-> BigOfInt(a), den |-> b, p10 |-> 0]

RatOfInt(a) == Rat(a, 1)

\* a / 10^k
RatDec(a, k) == [num |-> BigOfInt(a), den |-> 1, p10 |-> k]

RatNeg(r) == [r EXCEPT !.num = BigNeg(r.num)]

RatMul(r, s) ==
    [num |-> BigMul(r.num, s.num), den |-> r.den * s.den, p10 |-> r.p10 + s.p10]

\* r / k for an integer k > 0
RatDivInt(r, k) == [r EXCEPT !.den = r.den * k]

\* the numerator of r over the denominator  l * 10^p
RatScale(r, l, p) ==
    BigMul(r.num, BigMul(BigOfInt(l \div r.den), BigPow10(p - r.p10)))

Max2(a, b) == IF a >= b THEN a ELSE b

RatAdd(r, s) ==
    LET l == Lcm(r.den, s.den)
        p == Max2(r.p10, s.p10)
    IN  [num |-> BigAdd(RatScale(r, l, p), RatScale(s, l, p)), den |-> l, p10 |-> p]

RatSub(r, s) == RatAdd(r, RatNeg(s))

RatSign(r) == BigSign(r.num)

RatEq(r, s) == RatSign(RatSub(r, s)) = 0

RatLeq(r, s) == RatSign(RatSub(r, s)) <= 0

RECURSIVE RatPow(_, _)
RatPow(r, k) == IF k = 0 THEN RatOfInt(1) ELSE RatMul(r, RatPow(r, k - 1))

Zero == RatOfInt(0)

(***************************************************************************)
(* Bounds of the model and the inputs drawn in Init.                       *)
(***************************************************************************)
MaxCandles == 3
MaxCandlesTwo == 2
MaxTargets == 2
StartHours == 1

HourMs == 3600000

Null == -1

\* the values of a JavaScript number that are not finite
NaN == -2

Infinity == -3

\* a >= b and a <= b of JavaScript numbers: false when either side is NaN
Geq(a, b) ==
    IF a = NaN \/ b = NaN THEN FALSE
    ELSE IF a = Infinity THEN TRUE
    ELSE IF b = Infinity THEN FALSE
    ELSE a >= b

Leq(a, b) == Geq(b, a)

Calls == {1, 2}

\* [high, low] of the candles offered to rewarding (entry 100, stop 90,
\* targets 105 and 110 in the reference signal)
CandleShapes ==
    { [high |-> 102, low |-> 95],     \* reaches the entry only
      [high |-> 106, low |-> 103],    \* reaches 105
      [high |-> 111, low |-> 104],    \* reaches 105 and 110
      [high |-> 99,  low |-> 95],     \* below the entry, above the stop
      [high |-> 95,  low |-> 85],     \* below the entry, under the stop
      [high |-> 102, low |-> 85],     \* reaches the entry, breaches the stop
      [high |-> 111, low |-> 90] }    \* reaches every target, breaches the stop

\* 130 is reached by no candle
TargetValues == {105, 110, 130}

\* [entryPoint, stopLoss]
Levels == { [entryPoint |-> 100, stopLoss |-> 90] }

SeqsUpTo(S, lo, hi) == UNION { [1..n -> S] : n \in lo..hi }

\* candle k of a sequence of shapes opens k-1 hours after start
CandlesOf(shapes, start) ==
    [k \in 1..Len(shapes) |->
        [ts |-> start + (k - 1) * HourMs, high |-> shapes[k].high, low |-> shapes[k].low]]

VARIABLES
    candles,            \* argument: sequence of [ts, high, low]   (c[0], c[2], c[3])
    entryPoint,         \* argument
    stopLoss,           \* argument
    targets,            \* argument: sequence of target values
    startMs,            \* argument
    pc,                 \* per call: "idle", "loop", "resolve", "done"
    idx,                \* per call: position of the for-of iterator (1-based)
    normalizedTargets,  \* the arrays allocated at line 93, by allocation
    exitedByStop,       \* per call
    exitTimeMs,         \* per call
    maxTouchedReward,   \* per call, local of the terminal resolution
    rewardPerTouched,   \* per call
    rewardPerNotTouched,\* per call
    retLine,            \* per call: line of the return statement taken, 0 before
    reward,             \* per call: the value returned
    params,             \* calculateReward: the argument object
    cpc,                \* calculateReward/getData: position
    thrown,             \* calculateReward: the error it rejected with
    result,             \* calculateReward: the reward it resolved with
    exchangesToTry,     \* getData
    venue,              \* getData: position in exchangesToTry (1-based)
    since,              \* getData: cursor of the next page
    endMs,              \* getData
    gStartMs,           \* getData: startMs
    all,                \* getData: candles collected from the current venue
    lastError,          \* getData
    contacted,          \* venues that received a request (loadMarkets, fetchOHLCV)
    attempts,           \* history: how the try block ended for each venue tried
    served,             \* history: the candles the current venue has answered
    requested,          \* history: the last test of line 60 led to a fetchOHLCV call
    db,                 \* the signal row: status, score, touched flag of each target
    userScore,          \* the score column of the publishing user
    openTime,           \* the openTime column of the signal row, 0 when it has none
    pastOpen,           \* the clock is within a second of openTime or later
    pastClose,          \* the clock is within a second of closeTime or later
    edits,              \* number of updateSignal requests served
    hpc,                \* per updateSignalStatus request: position
    signal,             \* per request: the object read by getSignal
    statusChanged,      \* per request
    scoreChanged,       \* per request
    targetsChanged,     \* per request
    userScoreChanged,   \* per request
    outcome,            \* history, per request: how calculateReward ended
    dbBefore,           \* history, per request: the row when the request read it
    credits,            \* history: number of increments of userScore
    response            \* per request: the HTTP status sent, "none" while none was sent

inputs == <<candles, entryPoint, stopLoss, targets, startMs>>

rvars == <<pc, idx, normalizedTargets, exitedByStop, exitTimeMs, maxTouchedReward,
           rewardPerTouched, rewardPerNotTouched, retLine, reward>>

gvars == <<exchangesToTry, venue, since, endMs, gStartMs, all, lastError, contacted,
           attempts, served, requested>>

cvars == <<params, cpc, thrown, result, gvars>>

svars == <<db, userScore, openTime, pastOpen, pastClose, edits, hpc, signal, statusChanged,
           scoreChanged, targetsChanged, userScoreChanged, outcome, dbBefore, credits,
           response>>

vars == <<inputs, rvars, cvars, svars>>

(***************************************************************************)
(* rewarding: constants and helpers                                        *)
(***************************************************************************)
rewardBase == RatOfInt(1)
timeCost   == RatDec(99999999, 8)
targetCost == RatDec(99, 2)

\* Number(t) of a timestamp or null
NumberOf(t) == IF t = Null THEN 0 ELSE t

\* Math.abs(Number(t1) - Number(t0)) / 3_600_000
hoursBetween(t1, t0) == Abs(NumberOf(t1) - NumberOf(t0)) \div HourMs

\* the indices given in descending order
NormalizeTargetsReversed(tgts) ==
    [k \in 1..Len(tgts) |->
        [value |-> tgts[k], index |-> Len(tgts) - k, touched |-> FALSE, timestamp |-> Null]]

\* targets.map((t, idx) => ({value, index, touched: false, timestamp: null}))
NormalizeTargets(tgts) ==
    [k \in 1..Len(tgts) |->
        [value |-> tgts[k], index |-> k - 1, touched |-> FALSE, timestamp |-> Null]]

\* every call works on one and the same array
SharedCopy(c) == 1

\* the allocation a call works on: a fresh array per call
WorkingCopy(c) == c

\* the touch test with the comparison turned round
MarkTargetsFlipped(nt, high, ts) ==
    [k \in 1..Len(nt) |->
        IF ~nt[k].touched /\ high <= nt[k].value
        THEN [nt[k] EXCEPT !.touched = TRUE, !.timestamp = ts]
        ELSE nt[k]]

\* the touch recorded again on every candle that reaches the target
MarkTargetsLatest(nt, high, ts) ==
    [k \in 1..Len(nt) |->
        IF high >= nt[k].value
        THEN [nt[k] EXCEPT !.touched = TRUE, !.timestamp = ts]
        ELSE nt[k]]

\* for (const tgt of normalizedTargets) if (!tgt.touched && high >= tgt.value) ...
MarkTargets(nt, high, ts) ==
    [k \in 1..Len(nt) |->
        IF ~nt[k].touched /\ high >= nt[k].value
        THEN [nt[k] EXCEPT !.touched = TRUE, !.timestamp = ts]
        ELSE nt[k]]

NullTarget == [value |-> 0, index |-> Null, touched |-> FALSE, timestamp |-> Null]

TouchedTargets(nt) == SelectSeq(nt, LAMBDA t : t.touched)

\* the reduce comparing prices instead of indices
RECURSIVE ReduceMaxValue(_, _, _)
ReduceMaxValue(tt, acc, k) ==
    IF k > Len(tt) THEN acc
    ELSE ReduceMaxValue(tt, IF tt[k].value > acc.value THEN tt[k] ELSE acc, k + 1)

\* touchedTargets.reduce((acc, cur) => (cur.index > acc.index ? cur : acc))
RECURSIVE ReduceMaxIndex(_, _, _)
ReduceMaxIndex(tt, acc, k) ==
    IF k > Len(tt) THEN acc
    ELSE ReduceMaxIndex(tt, IF tt[k].index > acc.index THEN tt[k] ELSE acc, k + 1)

MaxTouched(nt) ==
    LET tt == TouchedTargets(nt)
    IN  IF Len(tt) # 0 THEN ReduceMaxIndex(tt, tt[1], 2) ELSE NullTarget

\* ((value - base) / base) * timeCost ** hours * targetCost ** index
DecayedGain(value, base, hours, index) ==
    RatMul(RatMul(Rat(value - base, base), RatPow(timeCost, hours)),
           RatPow(targetCost, index))

\* lines 137-139
StopPenaltyReward(exitT, stop, entry, start) ==
    LET hours   == hoursBetween(exitT, start)
        penalty == RatMul(Rat(stop - entry, entry), RatPow(timeCost, hours))
    IN  RatMul(RatNeg(penalty), rewardBase)

\* the gain of maxTouched with its operands exchanged
MaxTouchedRewardSwapped(mt, entry, start) ==
    RatMul(RatMul(Rat(entry - mt.value, entry),
                  RatPow(timeCost, hoursBetween(mt.timestamp, start))),
           RatPow(targetCost, mt.index))

\* lines 146-153
MaxTouchedRewardOf(mt, entry, start) ==
    DecayedGain(mt.value, entry, hoursBetween(mt.timestamp, start), mt.index)

\* lines 156-168
RECURSIVE TouchedLoop(_, _, _, _, _, _)
TouchedLoop(nt, k, touchedSum, touchedCount, entry, start) ==
    IF k > Len(nt)
    THEN IF touchedCount # 0 THEN RatDivInt(touchedSum, touchedCount) ELSE Zero
    ELSE IF nt[k].touched
    THEN TouchedLoop(nt, k + 1,
             RatAdd(touchedSum,
                    DecayedGain(nt[k].value, entry,
                                hoursBetween(nt[k].timestamp, start), nt[k].index)),
             touchedCount + 1, entry, start)
    ELSE TouchedLoop(nt, k + 1, touchedSum, touchedCount, entry, start)

RewardPerTouchedOf(nt, entry, start) == TouchedLoop(nt, 1, Zero, 0, entry, start)

\* lines 171-185
RECURSIVE NotTouchedLoop(_, _, _, _, _, _)
NotTouchedLoop(nt, k, notTouchedSum, notTouchedCount, mt, start) ==
    IF k > Len(nt)
    THEN IF notTouchedCount # 0 THEN RatDivInt(notTouchedSum, notTouchedCount) ELSE Zero
    ELSE IF ~nt[k].touched
    THEN LET hours == IF mt.timestamp # Null /\ mt.timestamp # 0
                      THEN hoursBetween(mt.timestamp, start) ELSE 0
         IN  NotTouchedLoop(nt, k + 1,
                 RatSub(notTouchedSum,
                        DecayedGain(nt[k].value, mt.value, hours, nt[k].index)),
                 notTouchedCount + 1, mt, start)
    ELSE NotTouchedLoop(nt, k + 1, notTouchedSum, notTouchedCount, mt, start)

RewardPerNotTouchedOf(nt, mt, start) == NotTouchedLoop(nt, 1, Zero, 0, mt, start)

(***************************************************************************)
(* rewarding as a state machine: one action per loop iteration and one for *)
(* the terminal resolution.                                                *)
(***************************************************************************)
AfterCandle(k) == IF k <= Len(candles) THEN "loop" ELSE "resolve"

\* lines 85-98: entry of a call
Invoke(c) ==
    /\ pc[c] = "idle"
    /\ pc' = [pc EXCEPT ![c] = AfterCandle(1)]
    /\ idx' = [idx EXCEPT ![c] = 1]
    /\ exitedByStop' = [exitedByStop EXCEPT ![c] = FALSE]
    /\ exitTimeMs' = [exitTimeMs EXCEPT ![c] = Null]
    /\ normalizedTargets' =
           [normalizedTargets EXCEPT ![WorkingCopy(c)] = NormalizeTargets(targets)]
    /\ UNCHANGED <<inputs, maxTouchedReward, rewardPerTouched, rewardPerNotTouched,
                   retLine, reward, cvars, svars>>

\* the loop going on to the next candle where the source returns 0
ScanCandleSkip(c) ==
    /\ pc[c] = "loop"
    /\ LET cd == candles[idx[c]]
           nt == normalizedTargets[WorkingCopy(c)]
       IN  IF Geq(cd.high, entryPoint) /\ Leq(cd.low, stopLoss)
           THEN /\ exitedByStop' = [exitedByStop EXCEPT ![c] = TRUE]
                /\ exitTimeMs' = [exitTimeMs EXCEPT ![c] = cd.ts]
                /\ pc' = [pc EXCEPT ![c] = "resolve"]
                /\ UNCHANGED <<idx, normalizedTargets>>
           ELSE /\ normalizedTargets' =
                       [normalizedTargets EXCEPT
                           ![WorkingCopy(c)] =
                               IF Geq(cd.high, entryPoint)
                               THEN MarkTargets(nt, cd.high, cd.ts) ELSE nt]
                /\ idx' = [idx EXCEPT ![c] = idx[c] + 1]
                /\ pc' = [pc EXCEPT ![c] = AfterCandle(idx[c] + 1)]
                /\ UNCHANGED <<exitedByStop, exitTimeMs>>
    /\ UNCHANGED <<inputs, maxTouchedReward, rewardPerTouched, rewardPerNotTouched,
                   retLine, reward, cvars, svars>>

\* the stop recorded without leaving the loop
ScanCandleNoBreak(c) ==
    /\ pc[c] = "loop"
    /\ LET cd == candles[idx[c]]
           nt == normalizedTargets[WorkingCopy(c)]
       IN  IF Geq(cd.high, entryPoint)
           THEN /\ IF Leq(cd.low, stopLoss)
                   THEN /\ exitedByStop' = [exitedByStop EXCEPT ![c] = TRUE]
                        /\ exitTimeMs' = [exitTimeMs EXCEPT ![c] = cd.ts]
                        /\ UNCHANGED normalizedTargets
                   ELSE /\ normalizedTargets' =
                               [normalizedTargets EXCEPT
                                   ![WorkingCopy(c)] = MarkTargets(nt, cd.high, cd.ts)]
                        /\ UNCHANGED <<exitedByStop, exitTimeMs>>
                /\ idx' = [idx EXCEPT ![c] = idx[c] + 1]
                /\ pc' = [pc EXCEPT ![c] = AfterCandle(idx[c] + 1)]
                /\ UNCHANGED <<retLine, reward>>
           ELSE /\ pc' = [pc EXCEPT ![c] = "done"]
                /\ retLine' = [retLine EXCEPT ![c] = 126]
                /\ reward' = [reward EXCEPT ![c] = Zero]
                /\ UNCHANGED <<idx, normalizedTargets, exitedByStop, exitTimeMs>>
    /\ UNCHANGED <<inputs, maxTouchedReward, rewardPerTouched, rewardPerNotTouched, cvars, svars>>

\* the targets marked before the stop is tested
ScanCandleTargetsFirst(c) ==
    /\ pc[c] = "loop"
    /\ LET cd == candles[idx[c]]
           nt == normalizedTargets[WorkingCopy(c)]
       IN  IF Geq(cd.high, entryPoint)
           THEN /\ normalizedTargets' =
                       [normalizedTargets EXCEPT
                           ![WorkingCopy(c)] = MarkTargets(nt, cd.high, cd.ts)]
                /\ IF Leq(cd.low, stopLoss)
                   THEN /\ exitedByStop' = [exitedByStop EXCEPT ![c] = TRUE]
                        /\ exitTimeMs' = [exitTimeMs EXCEPT ![c] = cd.ts]
                        /\ pc' = [pc EXCEPT ![c] = "resolve"]
                        /\ UNCHANGED idx
                   ELSE /\ idx' = [idx EXCEPT ![c] = idx[c] + 1]
                        /\ pc' = [pc EXCEPT ![c] = AfterCandle(idx[c] + 1)]
                        /\ UNCHANGED <<exitedByStop, exitTimeMs>>
                /\ UNCHANGED <<retLine, reward>>
           ELSE /\ pc' = [pc EXCEPT ![c] = "done"]
                /\ retLine' = [retLine EXCEPT ![c] = 126]
                /\ reward' = [reward EXCEPT ![c] = Zero]
                /\ UNCHANGED <<idx, normalizedTargets, exitedByStop, exitTimeMs>>
    /\ UNCHANGED <<inputs, maxTouchedReward, rewardPerTouched, rewardPerNotTouched, cvars, svars>>

\* lines 104-128: one iteration of the for loop
ScanCandle(c) ==
    /\ pc[c] = "loop"
    /\ LET cd == candles[idx[c]]
           nt == normalizedTargets[WorkingCopy(c)]
       IN  IF Geq(cd.high, entryPoint)
           THEN IF Leq(cd.low, stopLoss)
                THEN /\ exitedByStop' = [exitedByStop EXCEPT ![c] = TRUE]
                     /\ exitTimeMs' = [exitTimeMs EXCEPT ![c] = cd.ts]
                     /\ pc' = [pc EXCEPT ![c] = "resolve"]
                     /\ UNCHANGED <<idx, normalizedTargets, retLine, reward>>
                ELSE /\ normalizedTargets' =
                            [normalizedTargets EXCEPT
                                ![WorkingCopy(c)] = MarkTargets(nt, cd.high, cd.ts)]
                     /\ idx' = [idx EXCEPT ![c] = idx[c] + 1]
                     /\ pc' = [pc EXCEPT ![c] = AfterCandle(idx[c] + 1)]
                     /\ UNCHANGED <<exitedByStop, exitTimeMs, retLine, reward>>
           ELSE /\ pc' = [pc EXCEPT ![c] = "done"]
                /\ retLine' = [retLine EXCEPT ![c] = 126]
                /\ reward' = [reward EXCEPT ![c] = Zero]
                /\ UNCHANGED <<idx, normalizedTargets, exitedByStop, exitTimeMs>>
    /\ UNCHANGED <<inputs, maxTouchedReward, rewardPerTouched, rewardPerNotTouched, cvars, svars>>

\* lines 130-189: terminal resolution
Resolve(c) ==
    /\ pc[c] = "resolve"
    /\ LET nt == normalizedTargets[WorkingCopy(c)]
           mt == MaxTouched(nt)
       IN  IF exitedByStop[c] /\ mt = NullTarget
           THEN /\ retLine' = [retLine EXCEPT ![c] = 139]
                /\ reward' = [reward EXCEPT
                       ![c] = StopPenaltyReward(exitTimeMs[c], stopLoss, entryPoint, startMs)]
                /\ UNCHANGED <<maxTouchedReward, rewardPerTouched, rewardPerNotTouched>>
           ELSE IF mt = NullTarget
           THEN /\ retLine' = [retLine EXCEPT ![c] = 143]
                /\ reward' = [reward EXCEPT ![c] = Zero]
                /\ UNCHANGED <<maxTouchedReward, rewardPerTouched, rewardPerNotTouched>>
           ELSE LET m == MaxTouchedRewardOf(mt, entryPoint, startMs)
                    t == RewardPerTouchedOf(nt, entryPoint, startMs)
                    n == RewardPerNotTouchedOf(nt, mt, startMs)
                IN  /\ maxTouchedReward' = [maxTouchedReward EXCEPT ![c] = m]
                    /\ rewardPerTouched' = [rewardPerTouched EXCEPT ![c] = t]
                    /\ rewardPerNotTouched' = [rewardPerNotTouched EXCEPT ![c] = n]
                    /\ retLine' = [retLine EXCEPT ![c] = 188]
                    /\ reward' = [reward EXCEPT
                           ![c] = RatMul(RatAdd(RatAdd(m, t), n), rewardBase)]
    /\ pc' = [pc EXCEPT ![c] = "done"]
    /\ UNCHANGED <<inputs, idx, normalizedTargets, exitedByStop, exitTimeMs, cvars, svars>>

NoError == [msg |-> "none", last |-> "null"]

Undefined == [kind |-> "undefined"]

\* no call of rewarding made yet; callable says whether the model calls it directly
RewardingIdle(callable) ==
    /\ pc = [c \in Calls |-> IF callable THEN "idle" ELSE "none"]
    /\ idx = [c \in Calls |-> 1]
    /\ normalizedTargets = [c \in Calls |-> <<>>]
    /\ exitedByStop = [c \in Calls |-> FALSE]
    /\ exitTimeMs = [c \in Calls |-> Null]
    /\ maxTouchedReward = [c \in Calls |-> Zero]
    /\ rewardPerTouched = [c \in Calls |-> Zero]
    /\ rewardPerNotTouched = [c \in Calls |-> Zero]
    /\ retLine = [c \in Calls |-> 0]
    /\ reward = [c \in Calls |-> Zero]

\* calculateReward with argument p not started
CalcIdle(p, at) ==
    /\ params = p
    /\ cpc = at
    /\ thrown = NoError
    /\ result = Undefined
    /\ exchangesToTry = <<>>
    /\ venue = 1
    /\ since = 0
    /\ endMs = 0
    /\ gStartMs = 0
    /\ all = <<>>
    /\ lastError = "null"
    /\ contacted = {}
    /\ attempts = <<>>
    /\ served = <<>>
    /\ requested = FALSE

\* createSignal: the row of a new signal with n targets
NewRow(n) == [status |-> "not_opened", score |-> Zero, touched |-> [k \in 1..n |-> FALSE]]

\* no updateSignalStatus request served yet; at is the position of the requests
\* and ot the openTime of the signal (line 211: a missing openTime counts as 0)
SettleIdle(at, ot) ==
    /\ db = NewRow(Len(targets))
    /\ userScore = Zero
    /\ openTime = ot
    /\ pastOpen = (ot <= 0)
    /\ pastClose = FALSE
    /\ edits = 0
    /\ hpc = [r \in Calls |-> at]
    /\ signal = [r \in Calls |-> NewRow(0)]
    /\ statusChanged = [r \in Calls |-> FALSE]
    /\ scoreChanged = [r \in Calls |-> FALSE]
    /\ targetsChanged = [r \in Calls |-> FALSE]
    /\ userScoreChanged = [r \in Calls |-> FALSE]
    /\ outcome = [r \in Calls |-> "none"]
    /\ dbBefore = [r \in Calls |-> NewRow(0)]
    /\ credits = 0
    /\ response = [r \in Calls |-> "none"]

\* the arguments of rewarding, and no call made yet
InitWith(maxLen, levels) ==
    /\ startMs = StartHours * HourMs
    /\ \E shapes \in SeqsUpTo(CandleShapes, 0, maxLen) :
           candles = CandlesOf(shapes, startMs)
    /\ \E l \in levels : entryPoint = l.entryPoint /\ stopLoss = l.stopLoss
    /\ targets \in SeqsUpTo(TargetValues, 1, MaxTargets)
    /\ RewardingIdle(TRUE)
    /\ CalcIdle(Undefined, "none")
    /\ SettleIdle("none", startMs)

Init == InitWith(MaxCandles, Levels)

\* one call of rewarding
Next == Invoke(1) \/ ScanCandle(1) \/ Resolve(1)

Spec == Init /\ [][Next]_vars

\* two calls of rewarding on the same arguments, in any interleaving
NextTwo == \E c \in Calls : Invoke(c) \/ ScanCandle(c) \/ Resolve(c)

InitTwo == InitWith(MaxCandlesTwo, Levels)

SpecTwo == InitTwo /\ [][NextTwo]_vars

(***************************************************************************)
(* calculateReward and getData.  The timeframe is "1h": parseTimeframe      *)
(* gives 3600 s.  An ISO8601 string is modelled by the instant it denotes;  *)
(* a venue answers a page request with an error, an empty batch or any      *)
(* batch of candles on the timeframe grid.                                  *)
(***************************************************************************)
MaxBatch == 2
MaxAll == 3
WindowHours == 2

Num(v) == [kind |-> "num", v |-> v]

Iso(ms) == [kind |-> "iso", ms |-> ms]

\* the ids ccxt knows
Supported == {"kucoin", "gateio", "mexc", "binance"}

CalcStartMs == (StartHours + 1) * HourMs

CalcEndMs == CalcStartMs + WindowHours * HourMs

FetchShapes == { [high |-> 111, low |-> 104], [high |-> 102, low |-> 85] }

FetchCandles ==
    { [ts |-> CalcStartMs + k * HourMs, high |-> sh.high, low |-> sh.low] :
        k \in 0..WindowHours, sh \in FetchShapes }

\* one answer of fetchOHLCV: candles in ascending order of timestamp
Batches ==
    { b \in SeqsUpTo(FetchCandles, 1, MaxBatch) :
        \A i \in 1..(Len(b) - 1) : b[i].ts < b[i + 1].ts }

\* well-formed arguments but for entryPoint or stopLoss, which are defined and
\* not finite numbers: NaN, a non-numeric string, Infinity, null
NonFiniteParams ==
    LET ok == [ exchangeId |-> [kind |-> "array", v |-> <<"kucoin", "gateio">>],
                market     |-> "BTC/USDT",
                startTime  |-> Iso(CalcStartMs),
                endTime    |-> Iso(CalcEndMs),
                entryPoint |-> Num(100),
                stopLoss   |-> Num(90),
                targets    |-> [kind |-> "array", v |-> <<105>>] ]
    IN  { [ok EXCEPT !.entryPoint = e] :
            e \in { [kind |-> "nan"], [kind |-> "text"], [kind |-> "infinity"] } }
        \cup { [ok EXCEPT !.stopLoss = s] : s \in { [kind |-> "null"], [kind |-> "nan"] } }

\* a start half an hour into a bucket of the timeframe, and an entry no candle reaches
OffGridParams ==
    { [ exchangeId |-> [kind |-> "array", v |-> <<"kucoin", "gateio">>],
        market     |-> "BTC/USDT",
        startTime  |-> Iso(CalcStartMs + HourMs \div 2),
        endTime    |-> Iso(CalcEndMs),
        entryPoint |-> Num(200),
        stopLoss   |-> Num(90),
        targets    |-> [kind |-> "array", v |-> <<105>>] ] }

CalcParams ==
    NonFiniteParams \cup OffGridParams \cup
    [ exchangeId : { [kind |-> "array", v |-> <<"kucoin", "gateio">>],
                     [kind |-> "array", v |-> <<"nosuch", "kucoin">>],
                     [kind |-> "id", v |-> "nosuch"] },
      market     : {"", "BTC/USDT"},
      startTime  : {[kind |-> "missing"], [kind |-> "text"], Iso(CalcStartMs)},
      endTime    : {[kind |-> "missing"], Iso(CalcEndMs)},
      entryPoint : {Undefined, Num(100)},
      stopLoss   : {Undefined, Num(90)},
      targets    : { [kind |-> "notArray"], [kind |-> "array", v |-> <<>>],
                     [kind |-> "array", v |-> <<105>>],
                     [kind |-> "array", v |-> <<105, 110>>] } ]

\* parser.parse8601: the instant of an ISO8601 string, Null (undefined) otherwise
parse8601(t) == IF t.kind = "iso" THEN t.ms ELSE Null

\* parser.parseTimeframe(timeframe) * 1000
tfMs == HourMs

\* Number(x)
NumberOfParam(x) ==
    IF x.kind = "num" THEN x.v
    ELSE IF x.kind = "null" THEN 0
    ELSE IF x.kind = "infinity" THEN Infinity
    ELSE NaN

\* the error thrown without the cause
ThrowNoCause(msg, last) ==
    /\ cpc' = "thrown"
    /\ thrown' = [msg |-> msg, last |-> "null"]

Throw(msg, last) ==
    /\ cpc' = "thrown"
    /\ thrown' = [msg |-> msg, last |-> last]

\* the validation without the test of targets
ValidationErrorNoTargets(p) ==
    IF p.market = "" THEN "market is required (e.g., 'BTC/USDT')"
    ELSE IF p.startTime.kind = "missing" \/ p.endTime.kind = "missing"
    THEN "startTime and endTime are required (ISO8601)"
    ELSE IF p.entryPoint = Undefined \/ p.stopLoss = Undefined
    THEN "entryPoint and stopLoss are required"
    ELSE "none"

\* lines 194-212: destructuring and validation
ValidationError(p) ==
    IF p.market = "" THEN "market is required (e.g., 'BTC/USDT')"
    ELSE IF p.startTime.kind = "missing" \/ p.endTime.kind = "missing"
    THEN "startTime and endTime are required (ISO8601)"
    ELSE IF p.entryPoint = Undefined \/ p.stopLoss = Undefined
    THEN "entryPoint and stopLoss are required"
    ELSE IF p.targets.kind # "array" \/ Len(p.targets.v) = 0
    THEN "targets must be a non-empty array of numbers"
    ELSE "none"

CalcValidate ==
    /\ cpc = "start"
    /\ IF ValidationError(params) # "none"
       THEN Throw(ValidationError(params), "null")
       ELSE cpc' = "getData" /\ UNCHANGED thrown
    /\ UNCHANGED <<svars, inputs, rvars, params, result, gvars>>

\* lines 15-50: getData up to the loop over the venues
GetDataBegin ==
    /\ cpc = "getData"
    /\ LET ids == IF params.exchangeId.kind = "array"
                  THEN params.exchangeId.v ELSE <<params.exchangeId.v>>
           s   == parse8601(params.startTime)
           e   == parse8601(params.endTime)
       IN  /\ exchangesToTry' = ids
           /\ IF \A k \in 1..Len(ids) : ids[k] \notin Supported
              THEN /\ Throw("Unsupported exchangeId(s)", "null")
                   /\ UNCHANGED <<gStartMs, endMs>>
              ELSE IF s = Null \/ e = Null
              THEN /\ Throw("Invalid startTime or endTime - must be ISO8601 strings", "null")
                   /\ UNCHANGED <<gStartMs, endMs>>
              ELSE /\ gStartMs' = s
                   /\ endMs' = e
                   /\ cpc' = "venue"
                   /\ UNCHANGED thrown
    /\ venue' = 1
    /\ lastError' = "null"
    /\ UNCHANGED <<svars, inputs, rvars, params, result, since, all, contacted, attempts,
                   served, requested>>

\* the instant taken as it is
NotFloored(ms) == ms

\* line 54: Math.floor(startMs / tfMs) * tfMs
FloorToTimeframe(ms) == (ms \div tfMs) * tfMs

\* the next venue going on with the candles collected so far
VenueBeginKeep ==
    /\ cpc = "venue"
    /\ IF venue > Len(exchangesToTry)
       THEN /\ Throw("Failed to fetch OHLCV from exchanges", lastError)
            /\ UNCHANGED <<venue, since, all, contacted, served, requested>>
       ELSE IF exchangesToTry[venue] \notin Supported
       THEN /\ venue' = venue + 1
            /\ UNCHANGED <<cpc, thrown, since, all, contacted, served, requested>>
       ELSE /\ since' = FloorToTimeframe(gStartMs)
            /\ all' = all
            /\ contacted' = contacted \cup {exchangesToTry[venue]}
            /\ served' = <<>>
            /\ requested' = FALSE
            /\ cpc' = "page"
            /\ UNCHANGED <<venue, thrown>>
    /\ UNCHANGED <<svars, inputs, rvars, params, result, exchangesToTry, endMs, gStartMs, lastError,
                   attempts>>

\* lines 51-59 and 76-78: the next venue, or the failure after the last one
VenueBegin ==
    /\ cpc = "venue"
    /\ IF venue > Len(exchangesToTry)
       THEN /\ Throw("Failed to fetch OHLCV from exchanges", lastError)
            /\ UNCHANGED <<venue, since, all, contacted, served, requested>>
       ELSE IF exchangesToTry[venue] \notin Supported
       THEN /\ venue' = venue + 1
            /\ UNCHANGED <<cpc, thrown, since, all, contacted, served, requested>>
       ELSE /\ since' = FloorToTimeframe(gStartMs)
            /\ all' = <<>>
            /\ contacted' = contacted \cup {exchangesToTry[venue]}
            /\ served' = <<>>
            /\ requested' = FALSE
            /\ cpc' = "page"
            /\ UNCHANGED <<venue, thrown>>
    /\ UNCHANGED <<svars, inputs, rvars, params, result, exchangesToTry, endMs, gStartMs, lastError,
                   attempts>>

\* the end of the try block of the venue at position venue
Ended(how) == Append(attempts, [venue |-> venue, outcome |-> how])

\* the page loop ended: the call resolves with whatever was collected
AfterPagesAny(collected) ==
    /\ cpc' = "rewarding" /\ UNCHANGED venue
    /\ attempts' = Ended(IF Len(collected) # 0 THEN "candles" ELSE "empty")

\* lines 67-69: after the page loop of a venue
AfterPages(collected) ==
    IF Len(collected) # 0
    THEN cpc' = "rewarding" /\ UNCHANGED venue /\ attempts' = Ended("candles")
    ELSE cpc' = "venue" /\ venue' = venue + 1 /\ attempts' = Ended("empty")

\* lines 60-73: one test of the while condition and one page request
FetchPage ==
    /\ cpc = "page"
    /\ IF since < endMs
       THEN /\ requested' = TRUE
            /\ \/ \* fetchOHLCV throws
                  /\ lastError' = exchangesToTry[venue]
                  /\ venue' = venue + 1
                  /\ cpc' = "venue"
                  /\ attempts' = Ended("threw")
                  /\ UNCHANGED <<since, all, served>>
               \/ \* an empty batch
                  /\ AfterPages(all)
                  /\ UNCHANGED <<since, all, lastError, served>>
               \/ \E batch \in Batches :
                  /\ Len(all) + Len(batch) <= MaxAll
                  /\ all' = all \o batch
                  /\ served' = served \o batch
                  /\ LET lastTs == batch[Len(batch)].ts
                     IN  since' = IF lastTs = since THEN since + 1 ELSE lastTs + 1
                  /\ UNCHANGED <<cpc, venue, lastError, attempts>>
       ELSE /\ AfterPages(all)
            /\ requested' = FALSE
            /\ UNCHANGED <<since, all, lastError, served>>
    /\ UNCHANGED <<svars, inputs, rvars, params, thrown, result, exchangesToTry, endMs, gStartMs,
                   contacted>>

\* lines 214-227: getData resolved, rewarding is called
CallRewarding ==
    /\ cpc = "rewarding"
    /\ pc[1] = "none"
    /\ candles' = all
    /\ entryPoint' = NumberOfParam(params.entryPoint)
    /\ stopLoss' = NumberOfParam(params.stopLoss)
    /\ params.targets.kind = "array"
    /\ targets' = [k \in 1..Len(params.targets.v) |-> NumberOfParam(Num(params.targets.v[k]))]
    /\ startMs' = gStartMs
    /\ pc' = [pc EXCEPT ![1] = "idle"]
    /\ UNCHANGED <<idx, normalizedTargets, exitedByStop, exitTimeMs, maxTouchedReward,
                   rewardPerTouched, rewardPerNotTouched, retLine, reward, cvars, svars>>

\* line 228
CalcReturn ==
    /\ cpc = "rewarding"
    /\ pc[1] = "done"
    /\ result' = reward[1]
    /\ cpc' = "returned"
    /\ UNCHANGED <<svars, inputs, rvars, params, thrown, gvars>>

InitCalc ==
    /\ candles = <<>> /\ entryPoint = 0 /\ stopLoss = 0 /\ targets = <<>> /\ startMs = 0
    /\ RewardingIdle(FALSE)
    /\ \E p \in CalcParams : CalcIdle(p, "start")
    /\ SettleIdle("none", startMs)

NextCalc ==
    \/ CalcValidate
    \/ GetDataBegin
    \/ VenueBegin
    \/ FetchPage
    \/ CallRewarding
    \/ Invoke(1)
    \/ ScanCandle(1)
    \/ Resolve(1)
    \/ CalcReturn

SpecCalc == InitCalc /\ [][NextCalc]_vars

(***************************************************************************)
(* updateSignalStatus and updateSignal of the signals controller, with the *)
(* signal row and the user row of the database.  Each request is served    *)
(* once; its steps are the stretches between two awaits, and rewarding,    *)
(* which has no await, runs without any other step in between.  The signal *)
(* has a publishing user and a closeTime > 0; its openTime is the start of *)
(* the candles the venues hold, or 0.                                      *)
(***************************************************************************)
MaxEdits == 1

Reqs == Calls

SettleShapes ==
    { << [high |-> 102, low |-> 95], [high |-> 106, low |-> 103], [high |-> 95, low |-> 85] >>,
      << [high |-> 99, low |-> 95], [high |-> 111, low |-> 104] >>,
      << [high |-> 102, low |-> 85], [high |-> 111, low |-> 104] >>,
      << [high |-> 111, low |-> 104] >>,
      << [high |-> 102, low |-> 95] >> }

SettleTargets == { <<105>>, <<105, 110>>, <<95>> }

\* no call of rewarding is on the stack
NoCallRunning == \A c \in Calls : pc[c] \in {"none", "done"}

\* the row written whatever the flags
WriteStepAlways(st, sc, tc) == "updateSignal"

\* lines 364-384: the first await after the settlement block
WriteStep(st, sc, tc) ==
    IF st \/ sc THEN "updateSignal"
    ELSE IF tc THEN "updateTargets"
    ELSE "respond"

\* lines 204-254: getSignal, the time-based transitions and the test of the timestamps
ReadSignal(r) ==
    /\ NoCallRunning
    /\ hpc[r] = "start"
    /\ \/ \* getSignal rejects: the catch of lines 385-388
          /\ response' = [response EXCEPT ![r] = "500"]
          /\ hpc' = [hpc EXCEPT ![r] = "done"]
          /\ UNCHANGED <<signal, statusChanged, dbBefore>>
       \/ \* req.params.id names no signal: lines 205-207
          /\ response' = [response EXCEPT ![r] = "404"]
          /\ hpc' = [hpc EXCEPT ![r] = "done"]
          /\ UNCHANGED <<signal, statusChanged, dbBefore>>
       \/ LET opened  == db.status = "not_opened" /\ openTime > 0 /\ pastOpen
              status1 == IF opened THEN "open" ELSE db.status
              closing == status1 = "open" /\ pastClose
          IN  /\ signal' = [signal EXCEPT
                     ![r] = [db EXCEPT !.status = IF closing THEN "closed" ELSE status1]]
              /\ statusChanged' = [statusChanged EXCEPT ![r] = opened \/ closing]
              /\ hpc' = [hpc EXCEPT
                     ![r] = IF closing
                            THEN (IF openTime <= 0 THEN "done" ELSE "calc")
                            ELSE WriteStep(opened, FALSE, FALSE)]
              /\ dbBefore' = [dbBefore EXCEPT ![r] = db]
              /\ UNCHANGED response
    /\ UNCHANGED <<inputs, rvars, cvars, db, userScore, openTime, pastOpen, pastClose, edits,
                   scoreChanged, targetsChanged, userScoreChanged, outcome, credits>>

\* lines 262-272: calculateReward called, getData resolves and rewarding is entered
CalcBegin(r) ==
    /\ NoCallRunning
    /\ hpc[r] = "calc" /\ pc[r] = "none"
    /\ Len(candles) > 0
    /\ pc' = [pc EXCEPT ![r] = "idle"]
    /\ UNCHANGED <<inputs, idx, normalizedTargets, exitedByStop, exitTimeMs, maxTouchedReward,
                   rewardPerTouched, rewardPerNotTouched, retLine, reward, cvars, svars>>

\* the catch giving the signal a score of 0 whatever score it has
CalcThrowsFallback(r) ==
    /\ NoCallRunning
    /\ hpc[r] = "calc" /\ pc[r] = "none"
    /\ outcome' = [outcome EXCEPT ![r] = "threw"]
    /\ signal' = [signal EXCEPT ![r].score = Zero]
    /\ scoreChanged' = [scoreChanged EXCEPT ![r] = TRUE]
    /\ hpc' = [hpc EXCEPT ![r] = WriteStep(statusChanged[r], TRUE, FALSE)]
    /\ UNCHANGED <<inputs, rvars, cvars, db, userScore, openTime, pastOpen, pastClose, edits,
                   statusChanged, targetsChanged, userScoreChanged, dbBefore,
                   credits, response>>

\* lines 262-272 and 353-360: calculateReward rejects, the catch keeps signal.score
CalcThrows(r) ==
    /\ NoCallRunning
    /\ hpc[r] = "calc" /\ pc[r] = "none"
    /\ outcome' = [outcome EXCEPT ![r] = "threw"]
    /\ hpc' = [hpc EXCEPT ![r] = WriteStep(statusChanged[r], scoreChanged[r], FALSE)]
    /\ UNCHANGED <<inputs, rvars, cvars, db, userScore, openTime, pastOpen, pastClose, edits,
                   signal, statusChanged, scoreChanged, targetsChanged, userScoreChanged,
                   dbBefore, credits, response>>

\* lines 274-279: the reward becomes the score of the signal object
CalcReturns(r) ==
    /\ NoCallRunning
    /\ hpc[r] = "calc" /\ pc[r] = "done"
    /\ LET newScore == reward[r]
           changed  == ~RatEq(newScore, signal[r].score)
       IN  /\ signal' = [signal EXCEPT
                  ![r].score = IF changed THEN newScore ELSE signal[r].score]
           /\ scoreChanged' = [scoreChanged EXCEPT ![r] = changed]
    /\ outcome' = [outcome EXCEPT ![r] = "returned"]
    /\ hpc' = [hpc EXCEPT ![r] = "range"]
    /\ UNCHANGED <<inputs, rvars, cvars, db, userScore, openTime, pastOpen, pastClose, edits,
                   statusChanged, targetsChanged, userScoreChanged, dbBefore, credits,
                   response>>

RECURSIVE MaxHigh(_, _)
MaxHigh(cs, k) ==
    IF k = 1 THEN cs[1].high
    ELSE IF cs[k].high > MaxHigh(cs, k - 1) THEN cs[k].high ELSE MaxHigh(cs, k - 1)

RECURSIVE MinLow(_, _)
MinLow(cs, k) ==
    IF k = 1 THEN cs[1].low
    ELSE IF cs[k].low < MinLow(cs, k - 1) THEN cs[k].low ELSE MinLow(cs, k - 1)

\* lines 309-313
TouchedByRange(targetValue, entry, maxHigh, minLow) ==
    IF targetValue > entry THEN maxHigh >= targetValue ELSE minLow <= targetValue

\* lines 281-339: the second getData and the touched flags by price range
RangeFetch(r) ==
    /\ NoCallRunning
    /\ hpc[r] = "range"
    /\ \/ \* getData rejects
          UNCHANGED <<signal, targetsChanged>>
       \/ LET maxHigh == MaxHigh(candles, Len(candles))
              minLow  == MinLow(candles, Len(candles))
              updatedTargets ==
                  [k \in 1..Len(targets) |->
                      signal[r].touched[k]
                          \/ TouchedByRange(targets[k], entryPoint, maxHigh, minLow)]
              hasTargetChanges == \E k \in 1..Len(targets) :
                                     updatedTargets[k] # signal[r].touched[k]
          IN  /\ signal' = [signal EXCEPT
                     ![r].touched = IF hasTargetChanges THEN updatedTargets
                                    ELSE signal[r].touched]
              /\ targetsChanged' = [targetsChanged EXCEPT ![r] = hasTargetChanges]
    /\ hpc' = [hpc EXCEPT
           ![r] = IF scoreChanged[r] THEN "userScore"
                  ELSE WriteStep(statusChanged[r], scoreChanged[r], targetsChanged'[r])]
    /\ UNCHANGED <<inputs, rvars, cvars, db, userScore, openTime, pastOpen, pastClose, edits,
                   statusChanged, scoreChanged, userScoreChanged, outcome, dbBefore, credits,
                   response>>

\* lines 341-352 and updateUserScore: score: { increment: scoreChange }
UpdateUserScore(r) ==
    /\ NoCallRunning
    /\ hpc[r] = "userScore"
    /\ \/ /\ userScore' = RatAdd(userScore, signal[r].score)
          /\ userScoreChanged' = [userScoreChanged EXCEPT ![r] = TRUE]
          /\ credits' = credits + 1
       \/ \* the update rejects and the catch of line 349 logs it
          UNCHANGED <<userScore, userScoreChanged, credits>>
    /\ hpc' = [hpc EXCEPT
           ![r] = WriteStep(statusChanged[r], scoreChanged[r], targetsChanged[r])]
    /\ UNCHANGED <<inputs, rvars, cvars, db, openTime, pastOpen, pastClose, edits, signal,
                   statusChanged, scoreChanged, targetsChanged, outcome, dbBefore, response>>

\* lines 366-371: databaseService.updateSignal(id, {status, score})
UpdateSignalRow(r) ==
    /\ NoCallRunning
    /\ hpc[r] = "updateSignal"
    /\ \/ /\ db' = [db EXCEPT !.status = signal[r].status, !.score = signal[r].score]
          /\ hpc' = [hpc EXCEPT ![r] = IF targetsChanged[r] THEN "updateTargets" ELSE "reread"]
          /\ UNCHANGED response
       \/ \* the update rejects: the catch of lines 385-388
          /\ response' = [response EXCEPT ![r] = "500"]
          /\ hpc' = [hpc EXCEPT ![r] = "done"]
          /\ UNCHANGED db
    /\ UNCHANGED <<inputs, rvars, cvars, userScore, openTime, pastOpen, pastClose, edits,
                   signal, statusChanged, scoreChanged, targetsChanged, userScoreChanged,
                   outcome, dbBefore, credits>>

\* lines 374-376: databaseService.updateSignalTargets(id, targets)
UpdateSignalTargets(r) ==
    /\ NoCallRunning
    /\ hpc[r] = "updateTargets"
    /\ \/ /\ db' = [db EXCEPT !.touched = signal[r].touched]
          /\ hpc' = [hpc EXCEPT ![r] = "reread"]
          /\ UNCHANGED response
       \/ \* the update rejects: the catch of lines 385-388
          /\ response' = [response EXCEPT ![r] = "500"]
          /\ hpc' = [hpc EXCEPT ![r] = "done"]
          /\ UNCHANGED db
    /\ UNCHANGED <<inputs, rvars, cvars, userScore, openTime, pastOpen, pastClose, edits,
                   signal, statusChanged, scoreChanged, targetsChanged, userScoreChanged,
                   outcome, dbBefore, credits>>

\* lines 378-388: the response, after reading the row again when it was written
Respond(r) ==
    /\ NoCallRunning
    /\ hpc[r] \in {"reread", "respond"}
    /\ \/ response' = [response EXCEPT ![r] = "200"]
       \/ \* the second getSignal rejects
          /\ hpc[r] = "reread"
          /\ response' = [response EXCEPT ![r] = "500"]
    /\ hpc' = [hpc EXCEPT ![r] = "done"]
    /\ UNCHANGED <<inputs, rvars, cvars, db, userScore, openTime, pastOpen, pastClose, edits,
                   signal, statusChanged, scoreChanged, targetsChanged, userScoreChanged,
                   outcome, dbBefore, credits>>

\* exports.updateSignal with a status in the body and no closeTime
EditSignal ==
    /\ NoCallRunning
    /\ edits < MaxEdits
    /\ \E st \in {"open", "closed"} : db' = [db EXCEPT !.status = st]
    /\ edits' = edits + 1
    /\ UNCHANGED <<inputs, rvars, cvars, userScore, openTime, pastOpen, pastClose, hpc, signal,
                   statusChanged, scoreChanged, targetsChanged, userScoreChanged, outcome,
                   dbBefore, credits, response>>

\* the clock reaches openTime - 1000
ClockPassesOpen ==
    /\ NoCallRunning
    /\ ~pastOpen
    /\ pastOpen' = TRUE
    /\ UNCHANGED <<inputs, rvars, cvars, db, userScore, openTime, pastClose, edits, hpc,
                   signal, statusChanged, scoreChanged, targetsChanged, userScoreChanged,
                   outcome, dbBefore, credits, response>>

\* the clock reaches closeTime - 1000, closeTime > 0 being later than openTime
ClockPassesClose ==
    /\ NoCallRunning
    /\ pastOpen /\ ~pastClose
    /\ pastClose' = TRUE
    /\ UNCHANGED <<inputs, rvars, cvars, db, userScore, openTime, pastOpen, edits, hpc,
                   signal, statusChanged, scoreChanged, targetsChanged, userScoreChanged,
                   outcome, dbBefore, credits, response>>

\* the signal was created with openTime 0 (or none), or with the start of the candles
InitSettle ==
    /\ startMs = StartHours * HourMs
    /\ \E shapes \in SettleShapes : candles = CandlesOf(shapes, startMs)
    /\ \E l \in Levels : entryPoint = l.entryPoint /\ stopLoss = l.stopLoss
    /\ targets \in SettleTargets
    /\ RewardingIdle(FALSE)
    /\ CalcIdle(Undefined, "none")
    /\ \E ot \in {0, startMs} : SettleIdle("start", ot)

NextSettle ==
    \/ \E r \in Reqs : ReadSignal(r)
    \/ \E r \in Reqs : CalcBegin(r)
    \/ \E r \in Reqs : CalcThrows(r)
    \/ \E r \in Reqs : Invoke(r)
    \/ \E r \in Reqs : ScanCandle(r)
    \/ \E r \in Reqs : Resolve(r)
    \/ \E r \in Reqs : CalcReturns(r)
    \/ \E r \in Reqs : RangeFetch(r)
    \/ \E r \in Reqs : UpdateUserScore(r)
    \/ \E r \in Reqs : UpdateSignalRow(r)
    \/ \E r \in Reqs : UpdateSignalTargets(r)
    \/ \E r \in Reqs : Respond(r)
    \/ EditSignal
    \/ ClockPassesOpen
    \/ ClockPassesClose

SpecSettle == InitSettle /\ [][NextSettle]_vars

(***************************************************************************)
(* Properties of rewarding                                                 *)
(***************************************************************************)
Returned(c) == pc[c] = "done"

Work(c) == normalizedTargets[c]

TouchedIdx(c) == { k \in 1..Len(Work(c)) : Work(c)[k].touched }

UntouchedIdx(c) == { k \in 1..Len(Work(c)) : ~Work(c)[k].touched }

\* the touched target of greatest original index
TopTouched(c) == CHOOSE j \in TouchedIdx(c) : \A k \in TouchedIdx(c) : k <= j

HoursOf(ts) == (ts - startMs) \div HourMs

\* gain of target k over base, decayed by the hours of ts and by k's rank
GainOf(c, k, base, ts) ==
    RatMul(Rat(Work(c)[k].value - base, base),
           RatMul(RatPow(timeCost, HoursOf(ts)), RatPow(targetCost, k - 1)))

RECURSIVE SumTouched(_, _)
SumTouched(c, S) ==
    IF S = {} THEN Zero
    ELSE LET k == CHOOSE k \in S : TRUE
         IN  RatAdd(GainOf(c, k, entryPoint, Work(c)[k].timestamp), SumTouched(c, S \ {k}))

RECURSIVE SumUntouched(_, _, _)
SumUntouched(c, S, j) ==
    IF S = {} THEN Zero
    ELSE LET k == CHOOSE k \in S : TRUE
         IN  RatAdd(RatNeg(GainOf(c, k, Work(c)[j].value, Work(c)[j].timestamp)),
                    SumUntouched(c, S \ {k}, j))

MeanOf(sum, n) == IF n = 0 THEN Zero ELSE RatDivInt(sum, n)

\* the reward of the "at least one target touched" branch
TouchedBranchReward(c) ==
    LET j == TopTouched(c)
    IN  RatAdd(GainOf(c, j, entryPoint, Work(c)[j].timestamp),
               RatAdd(MeanOf(SumTouched(c, TouchedIdx(c)), Cardinality(TouchedIdx(c))),
                      MeanOf(SumUntouched(c, UntouchedIdx(c), j),
                             Cardinality(UntouchedIdx(c)))))

\* the reference scenario: entry 100, stop 90, targets 105 and 110; bar1 high 102,
\* bar2 high 106 low 103 one hour later, bar3 high 95 low 85 two hours later
Scenario ==
    /\ entryPoint = 100 /\ stopLoss = 90 /\ targets = <<105, 110>>
    /\ Len(candles) = 3
    /\ candles[1].high = 102 /\ candles[1].low = 95
    /\ candles[2].high = 106 /\ candles[2].low = 103
    /\ candles[3].high = 95 /\ candles[3].low = 85

\* C1: in the reference scenario the scan ends with exitedByStop, target 0 touched
\* and the reward of the touched-target branch; in general, a target touched on an
\* earlier candle and a later candle with low <= stopLoss give the reward of the
\* touched-target branch.
C1_TouchedThenStop ==
    \A c \in Calls : Returned(c) =>
        /\ Scenario =>
              /\ exitedByStop[c]
              /\ TouchedIdx(c) = {1}
              /\ retLine[c] = 188
              /\ RatEq(reward[c], TouchedBranchReward(c))
        /\ (\E k \in 1..Len(candles) :
                /\ candles[k].low <= stopLoss
                /\ \E j \in 1..(k - 1) : \E t \in TouchedIdx(c) :
                       Work(c)[t].timestamp = candles[j].ts)
              => retLine[c] = 188 /\ RatEq(reward[c], TouchedBranchReward(c))

\* C2: with stopLoss < entryPoint, a stop breach with no target touched before it
\* returns a strictly negative reward.
C2_StopOnlyNegative ==
    \A c \in Calls :
        (Returned(c) /\ stopLoss < entryPoint /\ entryPoint > 0
           /\ exitedByStop[c] /\ TouchedIdx(c) = {})
        => RatSign(reward[c]) < 0

\* C3: when the first candle has high < entryPoint the reward is exactly 0 and no
\* target is marked touched, whatever the later candles contain.
C3_EarlyAbort ==
    \A c \in Calls :
        (Returned(c) /\ Len(candles) > 0 /\ candles[1].high < entryPoint)
        => RatSign(reward[c]) = 0 /\ TouchedIdx(c) = {}

\* a call returned on a first candle below the entry that is followed by a candle
\* reaching the entry and a target
C3_Witness ==
    /\ Returned(1) /\ Len(candles) >= 2
    /\ candles[1].high < entryPoint
    /\ candles[2].high >= targets[1] /\ candles[2].high >= entryPoint
    /\ retLine[1] = 126

\* C4: the early abort is only taken on the first evaluated candle; once a candle
\* has reached the entry no later candle makes the call return 0 and discard the
\* targets already touched.
C4_ArmedLatched ==
    \A c \in Calls :
        (Returned(c) /\ retLine[c] = 126) => idx[c] = 1 /\ TouchedIdx(c) = {}

\* C5: entry reached, no candle with low <= stopLoss and no candle with
\* high >= a target value: the reward is exactly 0.
C5_NoTouchNoStop ==
    \A c \in Calls :
        (/\ Returned(c)
         /\ Len(candles) > 0 /\ candles[1].high >= entryPoint
         /\ \A k \in 1..Len(candles) :
                /\ candles[k].low > stopLoss
                /\ \A t \in 1..Len(targets) : candles[k].high < targets[t])
        => RatSign(reward[c]) = 0

\* a call that scanned two candles reaching the entry only and returned
C5_Witness ==
    /\ Returned(1) /\ Len(candles) >= 2 /\ retLine[1] = 143
    /\ \A k \in 1..Len(candles) :
           /\ candles[k].high >= entryPoint /\ candles[k].low > stopLoss
           /\ \A t \in 1..Len(targets) : candles[k].high < targets[t]

\* C6: with stopLoss < entryPoint < every target, the reward is positive only if
\* a target was touched, negative only if the stop was breached with no target
\* touched, and zero only if the entry was never reached or neither a target nor
\* the stop was hit.
C6_SignClassifies ==
    \A c \in Calls :
        (/\ Returned(c) /\ stopLoss < entryPoint
         /\ \A t \in 1..Len(targets) : entryPoint < targets[t])
        => /\ RatSign(reward[c]) > 0 => TouchedIdx(c) # {}
           /\ RatSign(reward[c]) < 0 => exitedByStop[c] /\ TouchedIdx(c) = {}
           /\ RatSign(reward[c]) = 0 =>
                 \/ \A k \in 1..Len(candles) : candles[k].high < entryPoint
                 \/ ~exitedByStop[c] /\ TouchedIdx(c) = {}

TermOfAlone(c, i) == GainOf(c, i, entryPoint, Work(c)[i].timestamp)

SameTouch(c, i, j) ==
    /\ i \in TouchedIdx(c) /\ i < j
    /\ Work(c)[i].timestamp = Work(c)[j].timestamp
    /\ Work(c)[i].value > entryPoint /\ Work(c)[j].value > entryPoint

\* C8 as stated: for targets i < j above the entry touched at the same timestamp,
\* the maxTouchedReward term with j the highest touched target is never smaller
\* than the term with only i touched.
C8_MonotonicBenefit ==
    \A c \in Calls : (Returned(c) /\ retLine[c] = 188) =>
        LET j == TopTouched(c)
        IN  \A i \in 1..Len(targets) :
                SameTouch(c, i, j) => RatLeq(TermOfAlone(c, i), maxTouchedReward[c])

RECURSIVE IntPow(_, _)
IntPow(b, k) == IF k = 0 THEN 1 ELSE b * IntPow(b, k - 1)

\* value_j - entry is at least (100/99)^(j-i) times value_i - entry
GainCoversRank(c, i, j) ==
    (Work(c)[j].value - entryPoint) * IntPow(99, j - i)
        >= (Work(c)[i].value - entryPoint) * IntPow(100, j - i)

\* C8 amended: the term with j the highest touched target is never smaller than
\* the term with only i touched provided the gain of value_j over the entry is at
\* least (100/99)^(j-i) times the gain of value_i.
C8_MonotonicBenefitAmended ==
    \A c \in Calls : (Returned(c) /\ retLine[c] = 188) =>
        LET j == TopTouched(c)
        IN  \A i \in 1..Len(targets) :
                (SameTouch(c, i, j) /\ GainCoversRank(c, i, j))
                => RatLeq(TermOfAlone(c, i), maxTouchedReward[c])

\* targets 105 then 110 touched by the same candle
C8_Witness ==
    /\ Returned(1) /\ retLine[1] = 188
    /\ \E i \in 1..Len(targets) :
          /\ SameTouch(1, i, TopTouched(1)) /\ GainCoversRank(1, i, TopTouched(1))
          /\ Work(1)[i].value < Work(1)[TopTouched(1)].value

BadTargets == params.targets.kind # "array" \/ Len(params.targets.v) = 0

\* C10: with targets empty or not an array, calculateReward fails before getData
\* is invoked: no venue is contacted and no reward is computed.
C10_TargetsValidatedFirst ==
    (cpc # "none" /\ BadTargets) =>
        /\ cpc \in {"start", "thrown"}
        /\ contacted = {}
        /\ exchangesToTry = <<>>
        /\ pc[1] = "none"
        /\ result = Undefined

\* rejected for the targets alone, every other parameter being valid
C10_Witness ==
    /\ cpc = "thrown" /\ BadTargets
    /\ thrown.msg = "targets must be a non-empty array of numbers"
    /\ params.exchangeId.kind = "array" /\ params.startTime.kind = "iso"

(***************************************************************************)
(* Properties of calculateReward and getData                               *)
(***************************************************************************)
\* x is a finite number
Finite(x) == x.kind = "num"

\* C11: calculateReward returns no reward when market, startTime or endTime is
\* missing or when entryPoint or stopLoss is not a finite number (null, NaN, a
\* non-numeric string, Infinity).
C11_ValidationComplete ==
    (\/ params.market = ""
     \/ params.startTime.kind = "missing" \/ params.endTime.kind = "missing"
     \/ ~Finite(params.entryPoint) \/ ~Finite(params.stopLoss))
    => cpc # "returned"

\* getData resolved with candles
Resolved == cpc \in {"rewarding", "returned"}

\* how the tries of the venue at position k ended
OutcomesOf(k) ==
    { attempts[i].outcome : i \in { j \in 1..Len(attempts) : attempts[j].venue = k } }

\* C12: getData resolves with the candles of the first venue, in list order, whose
\* page loop ended without error with at least one candle; the earlier venues threw
\* or returned nothing (or were skipped as unknown ids) without failing the call,
\* and no venue after the winning one is contacted.
C12_VenueFallbackOrder ==
    Resolved =>
        /\ venue \in 1..Len(exchangesToTry)
        /\ OutcomesOf(venue) = {"candles"}
        /\ Len(all) >= 1 /\ all = served
        /\ pc[1] # "none" => candles = served
        /\ \A k \in 1..(venue - 1) :
              IF exchangesToTry[k] \in Supported
              THEN OutcomesOf(k) # {} /\ OutcomesOf(k) \subseteq {"threw", "empty"}
              ELSE OutcomesOf(k) = {}
        /\ \A i \in 1..Len(attempts) : attempts[i].venue <= venue
        /\ contacted \subseteq { exchangesToTry[k] : k \in 1..venue }
        /\ thrown = NoError

C12_Witness ==
    /\ cpc = "returned" /\ venue = 2 /\ Len(attempts) = 2
    /\ attempts[1].outcome = "threw" /\ lastError = exchangesToTry[1]
    /\ contacted = {exchangesToTry[1], exchangesToTry[2]}

\* the errors getData throws
GetDataErrors ==
    { "Unsupported exchangeId(s)",
      "Invalid startTime or endTime - must be ISO8601 strings",
      "Failed to fetch OHLCV from exchanges" }

\* the venue error caught most recently, "null" when no venue threw
RECURSIVE LastThrown(_)
LastThrown(n) ==
    IF n = 0 THEN "null"
    ELSE IF attempts[n].outcome = "threw" THEN exchangesToTry[attempts[n].venue]
    ELSE LastThrown(n - 1)

\* every venue of the list was tried and threw or returned no candles
EveryVenueFailed(ks) ==
    \A k \in ks : OutcomesOf(k) # {} /\ OutcomesOf(k) \subseteq {"threw", "empty"}

\* C13: getData fails only when every venue in the candidate list threw or returned
\* no candles, and then the error carries the message of the most recent venue
\* error.
C13_FailsOnlyWhenAllFailed ==
    (cpc = "thrown" /\ thrown.msg \in GetDataErrors) =>
        /\ EveryVenueFailed(1..Len(exchangesToTry))
        /\ thrown.last = LastThrown(Len(attempts))

\* C13 (amended): getData fails with "Failed to fetch OHLCV" only when every venue
\* of the list that is a known id threw or returned no candles, unknown ids being
\* skipped, and then the error carries the message of the most recent venue error
\* (null when no venue threw); it fails otherwise only before any venue is
\* contacted, when no id of the list is known or a time bound does not parse.
C13_FailsOnlyWhenAllFailedAmended ==
    (cpc = "thrown" /\ thrown.msg \in GetDataErrors) =>
        IF thrown.msg = "Failed to fetch OHLCV from exchanges"
        THEN /\ EveryVenueFailed({ k \in 1..Len(exchangesToTry) :
                                     exchangesToTry[k] \in Supported })
             /\ \A k \in 1..Len(exchangesToTry) :
                    exchangesToTry[k] \notin Supported => OutcomesOf(k) = {}
             /\ thrown.last = LastThrown(Len(attempts))
        ELSE /\ attempts = <<>> /\ contacted = {}
             /\ \/ \A k \in 1..Len(exchangesToTry) : exchangesToTry[k] \notin Supported
                \/ parse8601(params.startTime) = Null
                \/ parse8601(params.endTime) = Null

C13_Witness ==
    /\ cpc = "thrown" /\ thrown.msg = "Failed to fetch OHLCV from exchanges"
    /\ Len(attempts) = 2
    /\ attempts[1].outcome = "threw" /\ attempts[2].outcome = "empty"
    /\ thrown.last = exchangesToTry[1]

\* C18: the sequence getData returns is strictly ascending by timestamp, no
\* timestamp occurring twice, within a page and across page boundaries.
C18_StrictlyAscending ==
    Resolved => \A i \in 1..Len(all) : \A j \in 1..Len(all) :
                    i < j => all[i].ts < all[j].ts

\* C19: every candle getData returns has its timestamp at or after the floored start
\* and before endTime, and no target touch or stop breach that the replay records
\* lies at or after endTime.
C19_WindowContainment ==
    /\ Resolved => \A i \in 1..Len(all) :
                      /\ all[i].ts >= (gStartMs \div tfMs) * tfMs
                      /\ all[i].ts < endMs
    /\ cpc = "returned" =>
          /\ exitedByStop[1] => exitTimeMs[1] < endMs
          /\ \A k \in TouchedIdx(1) : Work(1)[k].timestamp < endMs

(***************************************************************************)
(* Properties of the scan of rewarding                                     *)
(***************************************************************************)
\* the candles on which call c has run the target loop of lines 118-123
Evaluated(c) == 1..(idx[c] - 1)

\* the evaluated candles that reach the price v
Reaching(c, v) == { j \in Evaluated(c) : candles[j].high >= v }

\* the targets of call c are recorded as the evaluated candles first touched them
FirstTouchRecorded(c) ==
    \A k \in 1..Len(Work(c)) :
        LET t == Work(c)[k]
            R == Reaching(c, t.value)
        IN  /\ t.touched <=> R # {}
            /\ t.timestamp = IF R = {} THEN Null
                             ELSE candles[CHOOSE j \in R : \A i \in R : j <= i].ts

\* a touched target keeps its flag and its timestamp
TouchKept(c) ==
    \A k \in 1..Len(Work(c)) :
        Work(c)[k].touched =>
            /\ Len(Work(c)') = Len(Work(c))
            /\ Work(c)'[k].touched
            /\ Work(c)'[k].timestamp = Work(c)[k].timestamp

\* C20: at every point of the scan a target is touched iff some candle already
\* evaluated (armed, before any stop breach) had high >= its value, its timestamp is
\* that of the earliest such candle, and once set the flag and the timestamp never
\* change.
C20_FirstTouchRecorded ==
    /\ [](\A c \in Calls : pc[c] \in {"loop", "resolve", "done"} => FirstTouchRecorded(c))
    /\ [][\A c \in Calls : TouchKept(c)]_vars

\* two targets marked on the same candle, the second one, and reached again later
C20_Witness ==
    /\ pc[1] = "done" /\ Len(candles) = 3 /\ idx[1] = 4
    /\ Len(Work(1)) = 2
    /\ Work(1)[1].touched /\ Work(1)[2].touched
    /\ Work(1)[1].timestamp = candles[2].ts /\ Work(1)[2].timestamp = candles[2].ts
    /\ candles[3].high >= Work(1)[2].value

(***************************************************************************)
(* Properties of updateSignalStatus                                        *)
(***************************************************************************)
\* request r takes a step
Steps(r) == hpc'[r] # hpc[r]

\* what request r has added to the score of the user
Credited(r) == IF userScoreChanged[r] THEN signal[r].score ELSE Zero

\* C14: when calculateReward throws for a signal read as open and past its close
\* time, the request leaves the persisted status and score as they were: the
\* status stays "open".
C14_SettlementDeferred ==
    [][\A r \in Reqs :
          (Steps(r) /\ outcome[r] = "threw" /\ dbBefore[r].status = "open")
          => (db'.status = db.status /\ db'.score = db.score)]_vars

\* C15: whatever the interleaving of the updateSignalStatus requests and of the
\* edits, the reward of the signal is added to the score of the user at most once.
C15_CreditedAtMostOnce == credits <= 1

\* C16: after a settlement the persisted touched flag of each target is true
\* exactly when the replay of the reward computation marked the target touched.
C16_TouchedAgreesWithReplay ==
    \A r \in Reqs :
        (hpc[r] = "done" /\ outcome[r] = "returned")
        => \A k \in 1..Len(targets) : db.touched[k] <=> Work(r)[k].touched

\* C17: when a request closes the signal and calculateReward returned r, the row is
\* written with status "closed" and score r, and the score of the user has been
\* increased by exactly that score.
C17_SettlementEffect ==
    [][\A r \in Reqs :
          (hpc[r] = "updateSignal" /\ Steps(r) /\ outcome[r] = "returned")
          => /\ db'.status = "closed"
             /\ RatEq(db'.score, reward[r])
             /\ RatEq(Credited(r), db'.score)]_vars

\* call c takes a step
StepOf(c) == pc'[c] # pc[c] \/ idx'[c] # idx[c]

\* the candle under the iterator of call c reaches the entry and breaches the stop
BreachAt(c) ==
    /\ idx[c] <= Len(candles)
    /\ Geq(candles[idx[c]].high, entryPoint)
    /\ Leq(candles[idx[c]].low, stopLoss)

\* the scan of call c has ended on the stop candle
StoppedOnCandle(c) ==
    /\ pc[c] \in {"resolve", "done"}
    /\ BreachAt(c)
    /\ exitTimeMs[c] = candles[idx[c]].ts
    /\ \A k \in TouchedIdx(c) :
           \E j \in 1..(idx[c] - 1) : Work(c)[k].timestamp = candles[j].ts

\* C21: when an armed candle has low <= stopLoss, exitedByStop becomes true and the
\* exit time is the timestamp of that candle; no candle after it is evaluated: no
\* target is marked by a later candle and the exit time is not overwritten.
C21_StopHaltsScan ==
    /\ [](\A c \in Calls : exitedByStop[c] => StoppedOnCandle(c))
    /\ [][\A c \in Calls :
            /\ (StepOf(c) /\ pc[c] = "loop" /\ BreachAt(c))
               => /\ exitedByStop'[c]
                  /\ exitTimeMs'[c] = candles[idx[c]].ts
                  /\ pc'[c] = "resolve"
            /\ exitedByStop[c]
               => /\ exitedByStop'[c]
                  /\ idx'[c] = idx[c]
                  /\ exitTimeMs'[c] = exitTimeMs[c]
                  /\ Work(c)' = Work(c)]_vars

\* the stop on the first candle, the second one reaching an untouched target
C21_Witness ==
    /\ pc[1] = "done" /\ exitedByStop[1] /\ idx[1] = 1 /\ Len(candles) >= 2
    /\ exitTimeMs[1] = candles[1].ts
    /\ \E k \in UntouchedIdx(1) : candles[2].high >= Work(1)[k].value

\* the targets that the candle under the iterator of call c reaches and that no
\* candle evaluated before it reached
NewlyReached(c) ==
    { k \in 1..Len(targets) :
        /\ candles[idx[c]].high >= targets[k]
        /\ Reaching(c, targets[k]) = {} }

\* the reward of lines 136-139 for a stop at the instant t
StopOnlyReward(t) ==
    RatNeg(RatMul(Rat(stopLoss - entryPoint, entryPoint), RatPow(timeCost, HoursOf(t))))

\* C25: when an armed candle has both low <= stopLoss and high >= the value of an
\* untouched target, the scan ends with exitedByStop and that target stays
\* untouched; with no target touched on an earlier candle the result is the
\* stop-only reward.
C25_StopBeforeTargets ==
    \A c \in Calls :
        (pc[c] \in {"resolve", "done"} /\ BreachAt(c) /\ NewlyReached(c) # {})
        => /\ exitedByStop[c]
           /\ \A k \in NewlyReached(c) : ~Work(c)[k].touched
           /\ (Returned(c) /\ \A k \in 1..Len(targets) : Reaching(c, targets[k]) = {})
              => /\ retLine[c] = 139
                 /\ RatEq(reward[c], StopOnlyReward(candles[idx[c]].ts))

\* the second candle reaches every target and breaches the stop, none touched before
C25_Witness ==
    /\ Returned(1) /\ idx[1] = 2 /\ BreachAt(1)
    /\ NewlyReached(1) = 1..Len(targets)
    /\ retLine[1] = 139

\* the target values do not decrease with the index
NonDecreasing == \A i \in 1..Len(targets) : \A j \in 1..Len(targets) :
                     i < j => targets[i] <= targets[j]

\* the touched targets of call c are the first ones, touched in order of time
TouchedPrefix(c) ==
    LET n == Cardinality(TouchedIdx(c))
    IN  /\ TouchedIdx(c) = 1..n
        /\ \A i \in 1..n : \A j \in 1..n :
               i < j => Work(c)[i].timestamp <= Work(c)[j].timestamp
        /\ n > 0 =>
              /\ MaxTouched(Work(c)) = Work(c)[n]
              /\ \A k \in UntouchedIdx(c) : Work(c)[k].value >= MaxTouched(Work(c)).value

\* C30: when the target values are non-decreasing in index, after every evaluated
\* candle the touched targets are a prefix of the list, each touched no later than
\* the next, maxTouched is the last element of the prefix and no untouched target
\* has a value below maxTouched.value.
C30_TouchedPrefix ==
    NonDecreasing =>
        \A c \in Calls : pc[c] \in {"loop", "resolve", "done"} => TouchedPrefix(c)

\* two targets of different values touched on different candles, a third one not
C30_Witness ==
    /\ NonDecreasing /\ pc[1] = "resolve"
    /\ Len(targets) >= 2 /\ targets[1] < targets[2]
    /\ Work(1)[1].touched /\ Work(1)[2].touched
    /\ Work(1)[1].timestamp < Work(1)[2].timestamp

\* ---------------------------------------------------------------------------
\* Pagination of one venue (getData, lines 54-66)

\* a step of the page loop that asked the venue for a page
Requested == requested'

\* a step of the page loop that received a non-empty batch
GotBatch == cpc = "page" /\ all' # all

\* C22: the first page of a venue is requested from the start instant rounded
\* down to a multiple of the timeframe; after every non-empty batch the cursor
\* is the batch's last timestamp plus one; the venue is asked for another page
\* exactly when the cursor is below endMs, and the loop goes on exactly when
\* the batch it received was non-empty.
C22_PaginationStep ==
    [][ /\ (cpc = "venue" /\ cpc' = "page") =>
              /\ since' % tfMs = 0
              /\ since' <= gStartMs
              /\ gStartMs < since' + tfMs
              /\ ~requested'
        /\ cpc = "page" =>
              /\ Requested <=> since < endMs
              /\ GotBatch => since' = all'[Len(all')].ts + 1
              /\ cpc' = "page" <=> GotBatch
              /\ GotBatch => Requested ]_vars

C22_Witness ==
    /\ cpc = "page"
    /\ gStartMs % tfMs # 0
    /\ requested
    /\ Len(all) >= 2
    /\ since = all[Len(all)].ts + 1
    /\ since < endMs

\* ---------------------------------------------------------------------------
\* One venue per result (getData, lines 50-74)

\* a step that starts the page loop of a venue
StartsVenue == cpc = "venue" /\ cpc' = "page"

\* C23: within one getData call the venues are tried in list order, each at
\* most once; a venue whose page request throws is left for the next one even
\* if it had already answered pages, the next venue starts with no candles and
\* with the cursor at the floored start, and the candles the call resolves
\* with are exactly those answered by the venue tried last.
C23_OneVenuePerResult ==
    /\ [](/\ \A i, j \in DOMAIN attempts :
                i < j => attempts[i].venue < attempts[j].venue
          /\ cpc = "page" => \A i \in DOMAIN attempts : attempts[i].venue < venue
          /\ Resolved => all = served)
    /\ [][ /\ StartsVenue =>
                 /\ all' = <<>>
                 /\ since' = gStartMs - (gStartMs % tfMs)
           /\ (cpc = "page" /\ attempts' # attempts /\ attempts'[Len(attempts')].outcome = "threw") =>
                 /\ cpc' = "venue"
                 /\ venue' = venue + 1 ]_vars

C23_Witness ==
    /\ cpc = "venue"
    /\ venue = 2
    /\ venue <= Len(exchangesToTry)
    /\ attempts = << [venue |-> 1, outcome |-> "threw"] >>
    /\ served # <<>>
    /\ all = served

\* ---------------------------------------------------------------------------
\* Progress of the cursor (getData, lines 60-66)

\* C26: every non-empty batch moves the cursor of the page loop strictly
\* forward, whatever timestamps the venue answers with, so that a venue is
\* asked for finitely many pages.
C26_CursorStrictlyIncreases ==
    [][GotBatch => since' > since]_vars

\* ---------------------------------------------------------------------------
\* Responses and failures of updateSignalStatus

\* C27: a request that failed (response 500) after adding the reward to the
\* score of the user leaves the signal persisted with status "closed": the
\* reward is never in the user's score while the signal is still stored as it
\* was before the settlement.
C27_ScoreAndStatusTogether ==
    \A r \in Reqs :
        (response[r] = "500" /\ userScoreChanged[r] /\ edits = 0) => db.status = "closed"

\* C28: a request that has left the handler has been sent one response, with
\* status 200, 404 or 500.
C28_EveryRequestAnswered ==
    \A r \in Reqs : hpc[r] = "done" => response[r] \in {"200", "404", "500"}

\* ---------------------------------------------------------------------------
\* The status transitions of updateSignalStatus (lines 209-238, 363-384)

\* the order of the statuses
Rank(st) == CASE st = "not_opened" -> 0 [] st = "open" -> 1 [] st = "closed" -> 2

\* the positions of a request at which it fetches candles or writes
Working == {"calc", "range", "userScore", "updateSignal", "updateTargets", "reread"}

====
